---- MODULE Spec2Model ----
(***************************************************************************)
(* Model of the Immich API client (ImmichApiClient in                      *)
(* src/src/tools/search-tool.ts): the TTL response cache, the verb         *)
(* methods get/post/put/patch/delete/uploadAsset, the response error       *)
(* interceptor and validateConnection.                                     *)
(*                                                                         *)
(* JavaScript values are modelled as strings: Undefined and Null are two   *)
(* reserved strings, "" is the empty string, every other string is a       *)
(* truthy value.  A promise that awaits the HTTP client is modelled in two *)
(* steps: the call is started (and put in flight), and later the response  *)
(* or the fault arrives.                                                   *)
(***************************************************************************)
EXTENDS Integers, Sequences, FiniteSets, TLC

\* ------------------------------------------------------------------ bounds
\* Date.now() ranges over 0..MaxTime.
MaxTime == 3
\* Number of transport calls that can be in flight at the same time.
MaxInFlight == 2
\* Longest filePaths of an upload batch.
MaxFiles == 2
\* Number of upload batches run one after the other.
MaxBatches == 2
\* Longest assetIds of a tool call.
MaxIds == 2

\* ------------------------------------------------------- JavaScript values
Undefined == "<undefined>"
Null == "<null>"

\* ToBoolean(v) of a value modelled as a string.
Truthy(v) == v \notin {Undefined, Null, ""}

\* The JavaScript expression a || b.
Or(a, b) == IF Truthy(a) THEN a ELSE b

\* ------------------------------------------------------------- the requests
\* The params argument is a record [given, props]: given is FALSE when the
\* caller passed no params (undefined); props is the sequence of the object's
\* own properties <<name, value>> in insertion order; a value is a record
\* [type, text].
NoParams == [given |-> FALSE, props |-> <<>>]
Params(props) == [given |-> TRUE, props |-> props]
Num(t) == [type |-> "number", text |-> t]
Str(t) == [type |-> "string", text |-> t]
Bool(t) == [type |-> "boolean", text |-> t]
Undef == [type |-> "undefined", text |-> Undefined]

\* JSON.stringify of a property value: a number prints as its digits, a string
\* between quotes.
StringifyValue(v) ==
    IF v.type = "string" THEN <<"\"", v.text, "\"">> ELSE <<v.text>>

\* JSON.stringify of an object: the properties in insertion order, a property
\* whose value is undefined is left out.
RECURSIVE StringifyProps(_, _)
StringifyProps(props, first) ==
    IF props = <<>> THEN <<>>
    ELSE LET p == Head(props)
         IN  IF p[2].type = "undefined"
             THEN StringifyProps(Tail(props), first)
             ELSE (IF first THEN <<>> ELSE <<",">>)
                  \o <<"\"", p[1], "\"", ":">> \o StringifyValue(p[2])
                  \o StringifyProps(Tail(props), FALSE)

JSONStringify(obj) == <<"{">> \o StringifyProps(obj, TRUE) \o <<"}">>

\* `GET:${endpoint}:${JSON.stringify(params || {})}` as a sequence of tokens.
CacheKey(endpoint, params) ==
    <<"GET", ":", endpoint, ":">>
    \o JSONStringify(IF params.given THEN params.props ELSE <<>>)

\* The requests the tools issue in this model: endpoint and params.
Requests ==
    << [endpoint |-> "/api/albums", params |-> NoParams],
       [endpoint |-> "/api/albums",
        params |-> Params(<< <<"shared", Bool("true")>> >>)] >>

ReqIds == 1..Len(Requests)

KeyOf(r) == CacheKey(Requests[r].endpoint, Requests[r].params)

\* Response bodies of the remote service; "" stands for the falsy bodies
\* (empty string, 0, false, null).
Payloads == {"", "p", "q"}

\* ------------------------------------------------------------ the cache
\* config.CACHE_TTL * 1000, in ticks of the model's clock: a configuration
\* input, not fixed by the code.
cacheTtl == 2

NoCache == [k \in {} |-> [data |-> Undefined, timestamp |-> 0]]

\* isCacheValid with <= for <.
isCacheValid_Inclusive(timestamp, t) == t - timestamp <= cacheTtl

\* isCacheValid(timestamp) evaluated when Date.now() = t.
isCacheValid(timestamp, t) == t - timestamp < cacheTtl

\* cache.set(key, {data, timestamp: Date.now()}).
setCache(c, key, data, t) ==
    [k \in DOMAIN c \cup {key} |->
        IF k = key THEN [data |-> data, timestamp |-> t] ELSE c[k]]

\* An eviction that empties the cache.
CacheDelete_Sweeps(c, key) == NoCache

\* this.cache.delete(key)
CacheDelete(c, key) == [k \in DOMAIN c \ {key} |-> c[k]]

\* getFromCache(key) evaluated when Date.now() = t: the returned value and the
\* cache it leaves.
getFromCache(c, key, t) ==
    IF key \in DOMAIN c /\ isCacheValid(c[key].timestamp, t)
    THEN [value |-> c[key].data, cache |-> c]
    ELSE [value |-> Null,
          cache |-> IF key \in DOMAIN c THEN CacheDelete(c, key) ELSE c]

\* ------------------------------------------------- the response interceptor
\* What the HTTP client rejects with: response is TRUE when the remote service
\* answered with a non-2xx status (status, and the message and error fields of
\* the body, Undefined when the body has none), FALSE when no response arrived
\* (timeout, network fault); message is the client's own error.message.
HttpErrorStatuses == {404, 500}

AxiosMessage(status) ==
    IF status = 404 THEN "Request failed with status code 404"
    ELSE "Request failed with status code 500"

HttpErrors ==
    { [response |-> TRUE, status |-> st, bodyMessage |-> m, bodyError |-> e,
       message |-> AxiosMessage(st)] :
        st \in HttpErrorStatuses,
        m \in {Undefined, "", "not found"},
        e \in {Undefined, "Not Found"} }

NoResponseErrors ==
    { [response |-> FALSE, status |-> 0, bodyMessage |-> Undefined,
       bodyError |-> Undefined, message |-> m] :
        m \in {"timeout of 30000ms exceeded", "Network Error"} }

AxiosErrors == HttpErrors \cup NoResponseErrors

NoFault ==
    [response |-> FALSE, status |-> 0, bodyMessage |-> Undefined,
     bodyError |-> Undefined, message |-> Undefined]

\* error.response?.status || 0
StatusOr0(error) ==
    IF error.response /\ error.status # 0 THEN error.status ELSE 0

\* error.response?.status || 500
StatusOr500(error) ==
    IF error.response /\ error.status # 0 THEN error.status ELSE 500

\* The interceptor with the HTTP client's message ahead of the body's.
ResponseErrorInterceptor_ClientMessageFirst(error) ==
    [message |->
        Or(Or(error.message,
              IF error.response THEN error.bodyMessage ELSE Undefined),
           "Unknown Immich API error"),
     statusCode |-> StatusOr500(error),
     error |-> IF error.response THEN error.bodyError ELSE Undefined]

\* The rejection handler of the response interceptor: the ImmichApiError.
ResponseErrorInterceptor(error) ==
    [message |->
        Or(Or(IF error.response THEN error.bodyMessage ELSE Undefined,
              error.message),
           "Unknown Immich API error"),
     statusCode |-> StatusOr500(error),
     error |-> IF error.response THEN error.bodyError ELSE Undefined]

NoErr == [message |-> Undefined, statusCode |-> 0, error |-> Undefined]

\* new Error(`File not found: ${absolutePath}`): a plain Error, no statusCode.
FileNotFound == [message |-> "File not found", statusCode |-> 0, error |-> Undefined]

\* ------------------------------------------------------------------ state
VARIABLES
    now,      \* Date.now()
    cache,    \* ImmichApiClient.cache: key -> [data, timestamp]
    calls,    \* the transport calls awaiting the HTTP client, by slot
    last,     \* what the last step did: the call it started or settled
    vc,       \* the run of validateConnection
    keyIn,    \* two GET requests whose cache keys are compared
    keyOut,   \* their cache keys, once computed
    ub,       \* the run of AssetsTool.uploadAssets
    remote,   \* the albums of the remote service, in creation order
    listings, \* the album listings the remote service has answered with
    tc,       \* the tool call handed to an adapter's handleTool
    ca,       \* the run of AlbumsTool.checkAssetsInAlbum
    bu        \* the run of AssetsTool.bulkUpdateAssets

vars ==
    <<now, cache, calls, last, vc, keyIn, keyOut, ub, remote, listings, tc,
      ca, bu>>

Slots == 1..MaxInFlight

MutatingOps == {"post", "put", "patch", "delete"}

\* A call in flight: its verb, its request (0 when the verb is not get), the
\* cache-participation flag and the number of requests it handed to the HTTP
\* client.
Idle == [op |-> "idle", req |-> 0, useCache |-> FALSE, dispatches |-> 0]

\* The record of a step of a call.  at: "start" for the code of the verb method
\* up to its await (or to its return or throw before it), "end" for the code
\* after the await.  status: "pending" when the step left the call in flight,
\* "resolved" with value, "rejected" with err (fault is what the HTTP client
\* rejected with, normalized the number of times the interceptor built err).
\* age and seen describe the cache entry under the key of a get when the get
\* started: Date.now() - timestamp and data, -1 and Undefined without entry.
NoStep ==
    [at |-> "none", op |-> "none", req |-> 0, useCache |-> FALSE,
     dispatches |-> 0, age |-> -1, seen |-> Undefined, status |-> "none",
     value |-> Undefined, fault |-> NoFault, err |-> NoErr, normalized |-> 0]

Started(c) ==
    [NoStep EXCEPT !.at = "start", !.op = c.op, !.req = c.req,
                   !.useCache = c.useCache, !.dispatches = c.dispatches,
                   !.status = "pending"]

Resolved(c, at, value) ==
    [NoStep EXCEPT !.at = at, !.op = c.op, !.req = c.req,
                   !.useCache = c.useCache, !.dispatches = c.dispatches,
                   !.status = "resolved", !.value = value]

Rejected(c, at, fault, err, normalized) ==
    [NoStep EXCEPT !.at = at, !.op = c.op, !.req = c.req,
                   !.useCache = c.useCache, !.dispatches = c.dispatches,
                   !.status = "rejected", !.fault = fault, !.err = err,
                   !.normalized = normalized]

\* The entry under key as a get finds it.
AgeOf(c, key, t) == IF key \in DOMAIN c THEN t - c[key].timestamp ELSE -1
DataOf(c, key) == IF key \in DOMAIN c THEN c[key].data ELSE Undefined

\* The slot a new call takes: the first free one.
FreeSlot(s) ==
    /\ calls[s].op = "idle"
    /\ \A t \in DOMAIN calls : t < s => calls[t].op # "idle"

\* validateConnection's endpoints, then the base API path.
endpoints ==
    << "/api/users/me", "/api/server/info", "/api/server-info",
       "/api/server/version", "/api/server-info/version" >>

ProbePaths == endpoints \o << "/api" >>

\* The run of validateConnection: i is the probe in flight, probed the paths
\* requested so far, answers whether each settled probe responded.
VcIdle ==
    [pc |-> "idle", i |-> 0, probed |-> <<>>, answers |-> <<>>,
     result |-> FALSE]

\* The run of uploadAssets.  pc: "idle" before the first batch, "file" before
\* the upload of filePaths[i], "uploading" while it is in flight, "album" once
\* the loop is over, "listing", "creating" and "attaching" while the album
\* call of that name is in flight, "done" once the result is returned.  log
\* holds the calls made to the API client so far, before the albums the remote
\* service held when the batch started, listed the reference of the album
\* listing get resolved to, albumError whether the album step was left through
\* its catch, threw whether uploadAssets rejected, n the number of batches
\* started, faulty whether a remote call of this or of an earlier batch failed.
UbIdle ==
    [pc |-> "idle", filePaths |-> <<>>, albumId |-> Undefined,
     albumName |-> Undefined, i |-> 0, uploaded |-> <<>>, failed |-> <<>>,
     targetAlbumId |-> Undefined, success |-> FALSE, log |-> <<>>,
     inflight |-> 0, before |-> <<>>, listed |-> Undefined,
     albumError |-> FALSE, threw |-> FALSE, n |-> 0, faulty |-> FALSE]

NoAlbums == <<>>

\* No tool call.
TcIdle ==
    [pc |-> "idle", tool |-> "none", args |-> Undef, outcome |-> "none",
     sent |-> Undef]

\* No run of checkAssetsInAlbum: albumId and assetIds are the parsed input,
\* album the reference of the album get resolved to, results the results
\* of the result (assetId to isMember), outcome "returned" or "threw".
CaIdle ==
    [pc |-> "idle", albumId |-> Undefined, assetIds |-> <<>>,
     album |-> Undefined, outcome |-> "none",
     results |-> [q \in {} |-> FALSE], memberCount |-> 0,
     nonMemberCount |-> 0]

\* No run of bulkUpdateAssets: assetIds is the parsed input, sent the body of
\* the put, applied the ids the remote service updated, outcome "returned" or
\* "threw", success and updatedCount the fields of the result.
BuIdle ==
    [pc |-> "idle", assetIds |-> <<>>, sent |-> <<>>, applied |-> {},
     outcome |-> "none", success |-> FALSE, updatedCount |-> 0]

NoKeys == <<>>

KeyDefault ==
    << [endpoint |-> "/api/albums", params |-> NoParams],
       [endpoint |-> "/api/albums", params |-> NoParams] >>

Init ==
    /\ now = 0
    /\ cache = NoCache
    /\ calls = [s \in Slots |-> Idle]
    /\ last = NoStep
    /\ vc = VcIdle
    /\ keyIn = KeyDefault
    /\ keyOut = NoKeys
    /\ ub = UbIdle
    /\ remote = NoAlbums
    /\ listings = <<>>
    /\ tc = TcIdle
    /\ ca = CaIdle
    /\ bu = BuIdle

\* get that consults the cache whatever the flag.
GetLookup_IgnoresFlag(c, key, t, useCache) == getFromCache(c, key, t)

\* ----------------------------------------------------------------- get
\* get(endpoint, params, useCache) up to its await: the cache lookup when
\* useCache.
GetLookup(c, key, t, useCache) ==
    IF useCache THEN getFromCache(c, key, t) ELSE [value |-> Null, cache |-> c]

\* if (cached) return cached;
GetReturnsCached(useCache, cached) == useCache /\ Truthy(cached)

\* A store that keeps the entry already under the key.
GetStore_KeepsFirst(c, key, data, t, useCache) ==
    IF useCache /\ key \notin DOMAIN c THEN setCache(c, key, data, t) ELSE c

\* get after its await: the store of the response when useCache.
GetStore(c, key, data, t, useCache) ==
    IF useCache THEN setCache(c, key, data, t) ELSE c

GetStart(s, r, useCache) ==
    /\ FreeSlot(s)
    /\ LET key == KeyOf(r)
           cached == GetLookup(cache, key, now, useCache)
           call == [op |-> "get", req |-> r, useCache |-> useCache,
                    dispatches |-> 0]
           sent == [call EXCEPT !.dispatches = 1]
           found(step) == [step EXCEPT !.age = AgeOf(cache, key, now),
                                       !.seen = DataOf(cache, key)]
       IN  /\ cache' = cached.cache
           /\ IF GetReturnsCached(useCache, cached.value)
              THEN /\ last' = found(Resolved(call, "start", cached.value))
                   /\ calls' = calls
              ELSE /\ calls' = [calls EXCEPT ![s] = sent]
                   /\ last' = found(Started(sent))
    /\ UNCHANGED <<now, vc, keyIn, keyOut, ub, remote, listings, tc, ca, bu>>

GetResolve(s, data) ==
    /\ calls[s].op = "get"
    /\ cache' = GetStore(cache, KeyOf(calls[s].req), data, now,
                         calls[s].useCache)
    /\ last' = Resolved(calls[s], "end", data)
    /\ calls' = [calls EXCEPT ![s] = Idle]
    /\ UNCHANGED <<now, vc, keyIn, keyOut, ub, remote, listings, tc, ca, bu>>

\* ------------------------------------------- post, put, patch, delete
MutateStart(s, op) ==
    /\ FreeSlot(s)
    /\ LET sent == [Idle EXCEPT !.op = op, !.dispatches = 1]
       IN  /\ calls' = [calls EXCEPT ![s] = sent]
           /\ last' = Started(sent)
    /\ UNCHANGED <<now, cache, vc, keyIn, keyOut, ub, remote, listings, tc, ca, bu>>

\* A mutation that flushes the cached reads when it succeeds.
MutateResolve_Invalidates(s, data) ==
    /\ calls[s].op \in MutatingOps \cup {"uploadAsset"}
    /\ last' = Resolved(calls[s], "end", data)
    /\ calls' = [calls EXCEPT ![s] = Idle]
    /\ cache' = NoCache
    /\ UNCHANGED <<now, vc, keyIn, keyOut, ub, remote, listings, tc, ca, bu>>

\* The response of a post, put, patch, delete or uploadAsset: return
\* response.data.
MutateResolve(s, data) ==
    /\ calls[s].op \in MutatingOps \cup {"uploadAsset"}
    /\ last' = Resolved(calls[s], "end", data)
    /\ calls' = [calls EXCEPT ![s] = Idle]
    /\ UNCHANGED <<now, cache, vc, keyIn, keyOut, ub, remote, listings, tc, ca, bu>>

\* uploadAsset(filePath): throws when the file does not exist, else posts the
\* form to /api/assets.
UploadAsset(s, exists) ==
    /\ FreeSlot(s)
    /\ LET call == [Idle EXCEPT !.op = "uploadAsset"]
           sent == [call EXCEPT !.dispatches = 1]
       IN  IF ~exists
           THEN /\ last' = Rejected(call, "start", NoFault, FileNotFound, 0)
                /\ calls' = calls
           ELSE /\ calls' = [calls EXCEPT ![s] = sent]
                /\ last' = Started(sent)
    /\ UNCHANGED <<now, cache, vc, keyIn, keyOut, ub, remote, listings, tc, ca, bu>>

\* A rejection that stores the message of the error under the key of a get.
Reject_StoresError(s, fault) ==
    /\ calls[s].op # "idle"
    /\ last' = Rejected(calls[s], "end", fault,
                        ResponseErrorInterceptor(fault), 1)
    /\ calls' = [calls EXCEPT ![s] = Idle]
    /\ cache' = IF calls[s].op = "get"
                THEN setCache(cache, KeyOf(calls[s].req),
                              ResponseErrorInterceptor(fault).message, now)
                ELSE cache
    /\ UNCHANGED <<now, vc, keyIn, keyOut, ub, remote, listings, tc, ca, bu>>

\* A rejection that sends the request a second time before giving up.
Reject_RetriesOnce(s, fault) ==
    /\ calls[s].op # "idle"
    /\ IF calls[s].dispatches < 2
       THEN /\ calls' = [calls EXCEPT ![s].dispatches = calls[s].dispatches + 1]
            /\ last' = NoStep
       ELSE /\ last' = Rejected(calls[s], "end", fault,
                                ResponseErrorInterceptor(fault), 1)
            /\ calls' = [calls EXCEPT ![s] = Idle]
    /\ UNCHANGED <<now, cache, vc, keyIn, keyOut, ub, remote, listings, tc, ca, bu>>

\* The HTTP client rejects the request of a call: the interceptor builds the
\* ImmichApiError and the verb method rejects with it.
Reject(s, fault) ==
    /\ calls[s].op # "idle"
    /\ last' = Rejected(calls[s], "end", fault,
                        ResponseErrorInterceptor(fault), 1)
    /\ calls' = [calls EXCEPT ![s] = Idle]
    /\ UNCHANGED <<now, cache, vc, keyIn, keyOut, ub, remote, listings, tc, ca, bu>>

\* clearCache()
clearCache ==
    /\ cache # NoCache
    /\ cache' = NoCache
    /\ last' = NoStep
    /\ UNCHANGED <<now, calls, vc, keyIn, keyOut, ub, remote, listings, tc, ca, bu>>

\* Time passes.
Tick ==
    /\ now < MaxTime
    /\ now' = now + 1
    /\ last' = NoStep
    /\ UNCHANGED <<cache, calls, vc, keyIn, keyOut, ub, remote, listings, tc, ca, bu>>

\* ------------------------------------------------------ validateConnection
\* The request of probe i: this.get(endpoint, undefined, false) for the five
\* endpoints, this.client.get('/api') for the last.
ProbeLookup(c, i, t) ==
    IF i <= Len(endpoints)
    THEN GetLookup(c, CacheKey(endpoints[i], NoParams), t, FALSE).cache
    ELSE c

ProbeStore(c, i, data, t) ==
    IF i <= Len(endpoints)
    THEN GetStore(c, CacheKey(endpoints[i], NoParams), data, t, FALSE)
    ELSE c

ValidateStart ==
    /\ vc.pc = "idle"
    /\ vc' = [vc EXCEPT !.pc = "probing", !.i = 1,
                       !.probed = <<ProbePaths[1]>>]
    /\ cache' = ProbeLookup(cache, 1, now)
    /\ last' = NoStep
    /\ UNCHANGED <<now, calls, keyIn, keyOut, ub, remote, listings, tc, ca, bu>>

\* The probe in flight responds: return true.
ProbeOk(data) ==
    /\ vc.pc = "probing"
    /\ cache' = ProbeStore(cache, vc.i, data, now)
    /\ vc' = [vc EXCEPT !.pc = "done", !.result = TRUE,
                       !.answers = Append(vc.answers, TRUE)]
    /\ last' = NoStep
    /\ UNCHANGED <<now, calls, keyIn, keyOut, ub, remote, listings, tc, ca, bu>>

\* validateConnection without the request to the base API path.
ProbeAfterFailure_SkipsRoot(i) == IF i < Len(endpoints) THEN i + 1 ELSE 0

\* After the failure of probe i: the next probe, 0 when there is none.
ProbeAfterFailure(i) == IF i < Len(ProbePaths) THEN i + 1 ELSE 0

\* The probe in flight fails: try the next one, return false after the last.
ProbeFail(fault) ==
    /\ vc.pc = "probing"
    /\ LET n == ProbeAfterFailure(vc.i)
       IN  IF n # 0
           THEN /\ vc' = [vc EXCEPT !.i = n,
                                   !.probed = Append(vc.probed, ProbePaths[n]),
                                   !.answers = Append(vc.answers, FALSE)]
                /\ cache' = ProbeLookup(cache, n, now)
           ELSE /\ vc' = [vc EXCEPT !.pc = "done", !.result = FALSE,
                                   !.answers = Append(vc.answers, FALSE)]
                /\ cache' = cache
    /\ last' = NoStep
    /\ UNCHANGED <<now, calls, keyIn, keyOut, ub, remote, listings, tc, ca, bu>>

\* ------------------------------------------------------------ uploadAssets
\* The file paths of a batch and the files that exist on disk.
FilePaths == {"a.jpg", "missing.jpg"}

\* fs.existsSync(absolutePath)
existsSync(path) == path # "missing.jpg"

\* The identifier the remote service gives the asset of the i-th upload of a
\* batch.
AssetIds == <<"x1", "x2", "x3", "x4">>

\* result.status of an upload response.
UploadStatuses == {Undefined, "duplicate"}

\* String.prototype.toLowerCase() on the album names of the model.
toLowerCase(s) == IF s = "Summer Trip" THEN "summer trip" ELSE s

\* The album arguments of a batch.
AlbumIdArgs == {Undefined, "a1"}
AlbumNameArgs == {Undefined, "Summer Trip"}

\* The albums of the remote service before the first batch.
InitialAlbums ==
    { NoAlbums,
      << [id |-> "a0", albumName |-> "Winter"],
         [id |-> "a1", albumName |-> "summer trip"] >> }

\* The identifier the remote service gives the k-th album it holds.
NewAlbumIds == <<"n1", "n2", "n3", "n4", "n5", "n6">>

\* An album listing is a JavaScript array: the value the client resolves to
\* and stores is a reference to it, listings[k] the array behind the k-th
\* reference.
ListingRef == <<"albums#1", "albums#2", "albums#3", "albums#4">>

Listing(ref) ==
    listings[CHOOSE k \in 1..Len(ListingRef) : ListingRef[k] = ref]

\* The cache key of get('/api/albums').
AlbumsKey == CacheKey("/api/albums", NoParams)

\* A call to the API client: the method, its argument (the file path, the
\* endpoint, the albumName of the body or the album of the attach endpoint),
\* the ids of an attach body, net whether a request went to the HTTP client,
\* out the outcome and ret the identifier of the response.
Call(call, arg, ids, net) ==
    [call |-> call, arg |-> arg, ids |-> ids, net |-> net,
     out |-> "pending", ret |-> Undefined]

\* The call in flight settles.
Settle(u, out, ret) ==
    [u EXCEPT !.log[Len(u.log)].out = out, !.log[Len(u.log)].ret = ret,
              !.inflight = IF u.log[Len(u.log)].net THEN @ - 1 ELSE @]

\* uploaded.push({filePath, assetId: result.id, status: result.status || 'created'})
UploadedEntry(filePath, result) ==
    [filePath |-> filePath, assetId |-> result.id,
     status |-> Or(result.status, "created")]

\* failed.push({filePath, error: error.message || 'Unknown error'})
FailedEntry(filePath, error) ==
    [filePath |-> filePath, error |-> Or(error.message, "Unknown error")]

\* uploaded.unshift(entry)
PushUploaded_Front(seq, entry) == <<entry>> \o seq

\* uploaded.push(entry)
PushUploaded(seq, entry) == Append(seq, entry)

\* A loop that ends at the first failure.
FileSettled_StopsAtFailure(u) ==
    [u EXCEPT !.i = @ + 1,
              !.pc = IF u.i < Len(u.filePaths) /\ u.failed = <<>>
                     THEN "file" ELSE "album"]

\* for (const filePath of filePaths): the next file, or the end of the loop.
FileSettled(u) ==
    [u EXCEPT !.i = @ + 1,
              !.pc = IF u.i < Len(u.filePaths) THEN "file" ELSE "album"]

\* The album step also for a batch with no uploaded file.
AlbumStepRuns_WithoutUploads(albumId, albumName, uploaded) ==
    Truthy(albumId) \/ Truthy(albumName)

\* if ((albumId || albumName) && uploaded.length > 0)
AlbumStepRuns(albumId, albumName, uploaded) ==
    (Truthy(albumId) \/ Truthy(albumName)) /\ Len(uploaded) > 0

\* if (!albumId && albumName)
NeedsLookup(albumId, albumName) == ~Truthy(albumId) /\ Truthy(albumName)

\* The positions of the albums whose name is name but for the case.
Matches(albums, name) ==
    { k \in 1..Len(albums) :
        toLowerCase(albums[k].albumName) = toLowerCase(name) }

\* albums.find(a => a.albumName.toLowerCase() === albumName.toLowerCase()):
\* the id of the first match, Undefined without match.
ExistingAlbumId(albums, name) ==
    LET m == Matches(albums, name)
    IN  IF m = {} THEN Undefined
        ELSE albums[CHOOSE k \in m : \A j \in m : k <= j].id

\* A create body with the name in lower case.
CreateBody_LowerCase(albumName) == toLowerCase(albumName)

\* The albumName of the body of post('/api/albums', {albumName}).
CreateBody(albumName) == albumName

\* The ids of an attach body in reverse order.
AssetIdsOf_Reversed(uploaded) ==
    [k \in 1..Len(uploaded) |-> uploaded[Len(uploaded) + 1 - k].assetId]

\* uploaded.map(u => u.assetId)
AssetIdsOf(uploaded) == [k \in 1..Len(uploaded) |-> uploaded[k].assetId]

\* A success flag that also asks for the album step to succeed.
ResultSuccess_AlbumCounts(u) == Len(u.failed) = 0 /\ ~u.albumError

\* success: failed.length === 0
ResultSuccess(u) == Len(u.failed) = 0

\* return {success, uploaded, failed, albumId: targetAlbumId}
Finish(u) == [u EXCEPT !.pc = "done", !.success = ResultSuccess(u)]

\* A catch that throws the error again.
AlbumCatch_Rethrows(u) == [u EXCEPT !.albumError = TRUE, !.threw = TRUE]

\* catch (error) { logger.error(...) } of the album step.
AlbumCatch(u) == [u EXCEPT !.albumError = TRUE]

\* await immichApi.put(`/api/albums/${targetAlbumId}/assets`, {ids: assetIds})
Attach(u) ==
    [u EXCEPT !.pc = "attaching",
              !.log = Append(@, Call("put", u.targetAlbumId,
                                     AssetIdsOf(u.uploaded), TRUE)),
              !.inflight = @ + 1]

\* The album step once the listing is there: the existing album, or the call
\* that creates one.
AfterList(u, albums) ==
    LET existing == ExistingAlbumId(albums, u.albumName)
    IN  IF Truthy(existing)
        THEN Attach([u EXCEPT !.targetAlbumId = existing])
        ELSE [u EXCEPT !.pc = "creating",
                       !.log = Append(@, Call("post", CreateBody(u.albumName),
                                              <<>>, TRUE)),
                       !.inflight = @ + 1]

\* uploadAssets(args) up to its loop.
BatchStart(filePaths, albumId, albumName) ==
    /\ ub.pc = "idle"
    /\ ub.n < MaxBatches
    /\ ub' = [UbIdle EXCEPT !.pc = "file", !.filePaths = filePaths,
                           !.albumId = albumId, !.albumName = albumName,
                           !.i = 1, !.before = remote, !.n = ub.n + 1,
                           !.faulty = ub.faulty]
    /\ last' = NoStep
    /\ UNCHANGED <<now, cache, calls, vc, keyIn, keyOut, remote, listings, tc, ca, bu>>

\* await immichApi.uploadAsset(filePath) up to its await: the file that does
\* not exist fails at once, the other is sent.
FileBegin ==
    /\ ub.pc = "file"
    /\ LET p == ub.filePaths[ub.i]
           called == [ub EXCEPT !.log = Append(@, Call("uploadAsset", p, <<>>,
                                                      existsSync(p)))]
       IN  IF existsSync(p)
           THEN ub' = [called EXCEPT !.pc = "uploading", !.inflight = @ + 1]
           ELSE ub' = FileSettled(
                        [Settle(called, "error", Undefined) EXCEPT
                            !.failed = Append(@, FailedEntry(p, FileNotFound))])
    /\ last' = NoStep
    /\ UNCHANGED <<now, cache, calls, vc, keyIn, keyOut, remote, listings, tc, ca, bu>>

\* The upload in flight responds.
FileOk(status) ==
    /\ ub.pc = "uploading"
    /\ LET result == [id |-> AssetIds[ub.i], status |-> status]
           entry == UploadedEntry(ub.filePaths[ub.i], result)
       IN  ub' = FileSettled(
                   [Settle(ub, "ok", result.id) EXCEPT
                       !.uploaded = PushUploaded(@, entry)])
    /\ last' = NoStep
    /\ UNCHANGED <<now, cache, calls, vc, keyIn, keyOut, remote, listings, tc, ca, bu>>

\* The upload in flight fails.
FileFail(fault) ==
    /\ ub.pc = "uploading"
    /\ LET entry == FailedEntry(ub.filePaths[ub.i],
                                ResponseErrorInterceptor(fault))
       IN  ub' = FileSettled(
                   [Settle(ub, "error", Undefined) EXCEPT
                       !.failed = Append(@, entry), !.faulty = TRUE])
    /\ last' = NoStep
    /\ UNCHANGED <<now, cache, calls, vc, keyIn, keyOut, remote, listings, tc, ca, bu>>

\* The code after the loop up to its first await, or to the return.
AlbumBegin ==
    /\ ub.pc = "album"
    /\ LET u == [ub EXCEPT !.targetAlbumId = ub.albumId]
           cached == GetLookup(cache, AlbumsKey, now, TRUE)
           got == Call("get", "/api/albums", <<>>, FALSE)
       IN  IF ~AlbumStepRuns(u.albumId, u.albumName, u.uploaded)
           THEN /\ ub' = Finish(u)
                /\ cache' = cache
           ELSE IF ~NeedsLookup(u.albumId, u.albumName)
           THEN /\ ub' = Attach(u)
                /\ cache' = cache
           ELSE /\ cache' = cached.cache
                /\ IF GetReturnsCached(TRUE, cached.value)
                   THEN ub' = AfterList(
                            [Settle([u EXCEPT !.log = Append(@, got)],
                                    "ok", Undefined)
                                EXCEPT !.listed = cached.value],
                            Listing(cached.value))
                   ELSE ub' = [u EXCEPT
                                 !.pc = "listing",
                                 !.log = Append(@, [got EXCEPT !.net = TRUE]),
                                 !.inflight = @ + 1]
    /\ last' = NoStep
    /\ UNCHANGED <<now, calls, vc, keyIn, keyOut, remote, listings, tc, ca, bu>>

\* The remote service answers get('/api/albums') with its albums.
ListOk ==
    /\ ub.pc = "listing"
    /\ Len(listings) < Len(ListingRef)
    /\ LET ref == ListingRef[Len(listings) + 1]
       IN  /\ listings' = Append(listings, remote)
           /\ cache' = GetStore(cache, AlbumsKey, ref, now, TRUE)
           /\ ub' = AfterList([Settle(ub, "ok", Undefined) EXCEPT
                                  !.listed = ref],
                              remote)
    /\ last' = NoStep
    /\ UNCHANGED <<now, calls, vc, keyIn, keyOut, remote, tc, ca, bu>>

\* The remote service creates the album and answers with it.
CreateOk ==
    /\ ub.pc = "creating"
    /\ Len(remote) < Len(NewAlbumIds)
    /\ LET newAlbum == [id |-> NewAlbumIds[Len(remote) + 1],
                        albumName |-> ub.log[Len(ub.log)].arg]
       IN  /\ remote' = Append(remote, newAlbum)
           /\ ub' = Attach([Settle(ub, "ok", newAlbum.id) EXCEPT
                               !.targetAlbumId = newAlbum.id])
    /\ last' = NoStep
    /\ UNCHANGED <<now, cache, calls, vc, keyIn, keyOut, listings, tc, ca, bu>>

\* The remote service answers the attach call.
AttachOk ==
    /\ ub.pc = "attaching"
    /\ ub' = Finish(Settle(ub, "ok", Undefined))
    /\ last' = NoStep
    /\ UNCHANGED <<now, cache, calls, vc, keyIn, keyOut, remote, listings, tc, ca, bu>>

\* The caller has the result; the next batch can start.
BatchReturn ==
    /\ ub.pc = "done"
    /\ ub' = [UbIdle EXCEPT !.n = ub.n, !.faulty = ub.faulty]
    /\ last' = NoStep
    /\ UNCHANGED <<now, cache, calls, vc, keyIn, keyOut, remote, listings, tc, ca, bu>>

\* The album call in flight fails.
AlbumFail(fault) ==
    /\ ub.pc \in {"listing", "creating", "attaching"}
    /\ ub' = Finish(AlbumCatch([Settle(ub, "error", Undefined) EXCEPT
                                   !.faulty = TRUE]))
    /\ last' = NoStep
    /\ UNCHANGED <<now, cache, calls, vc, keyIn, keyOut, remote, listings, tc, ca, bu>>

\* ------------------------------------------------------- the tool adapters
\* A tool call carries one argument: the value of the field named by the
\* tool's declared shape.  Arr(n) is an array of n strings.
Arr(n) == [type |-> "array", text |-> n]

ArgValues ==
    { Undef, Num("0"), Num("5"), Num("5000"), Str(""), Str("abc"),
      Bool("true"), Arr("0"), Arr("1") }

\* The number a numeral of the model stands for.
NumberOf(text) ==
    CASE text = "1" -> 1
      [] text = "5" -> 5
      [] text = "250" -> 250
      [] text = "5000" -> 5000
      [] OTHER -> 0

\* ToBoolean(v) of an argument value.
ToBoolean(v) ==
    /\ v.type # "undefined"
    /\ ~(v.type = "number" /\ v.text = "0")
    /\ ~(v.type = "string" /\ v.text = "")
    /\ ~(v.type = "boolean" /\ v.text = "false")

AssetsTools ==
    {"assets_get", "assets_get_statistics", "assets_get_random",
     "assets_upload"}

SearchTools ==
    {"search_general", "search_metadata", "search_explore",
     "search_by_filename"}

\* The inputSchema of the tool catalogs, for the field of the model: its
\* type ("any" when the catalog declares no property), whether it is
\* required, and the minimum and maximum of a number or of the length of an
\* array (bounded is FALSE without maximum).
DeclaredShape(tool) ==
    CASE tool = "assets_get" ->
           [field |-> "assetId", type |-> "string", required |-> TRUE,
            min |-> 0, max |-> 0, bounded |-> FALSE]
      [] tool = "assets_get_statistics" ->
           [field |-> "isArchived", type |-> "boolean", required |-> FALSE,
            min |-> 0, max |-> 0, bounded |-> FALSE]
      [] tool = "assets_get_random" ->
           [field |-> "count", type |-> "number", required |-> FALSE,
            min |-> 1, max |-> 100, bounded |-> TRUE]
      [] tool = "assets_upload" ->
           [field |-> "filePaths", type |-> "array", required |-> TRUE,
            min |-> 1, max |-> 0, bounded |-> FALSE]
      [] tool = "search_general" ->
           [field |-> "size", type |-> "number", required |-> FALSE,
            min |-> 1, max |-> 1000, bounded |-> TRUE]
      [] tool = "search_metadata" ->
           [field |-> "size", type |-> "number", required |-> FALSE,
            min |-> 1, max |-> 1000, bounded |-> TRUE]
      [] tool = "search_explore" ->
           [field |-> "any", type |-> "any", required |-> FALSE,
            min |-> 0, max |-> 0, bounded |-> FALSE]
      [] OTHER ->
           [field |-> "filename", type |-> "string", required |-> TRUE,
            min |-> 0, max |-> 0, bounded |-> FALSE]

\* v satisfies the declared shape of the tool.
Conforms(tool, v) ==
    LET d == DeclaredShape(tool)
    IN  IF v.type = "undefined" THEN ~d.required
        ELSE \/ d.type = "any"
             \/ /\ v.type = d.type
                /\ d.type \in {"number", "array"}
                      => /\ NumberOf(v.text) >= d.min
                         /\ d.bounded => NumberOf(v.text) <= d.max

\* What a handler does with the call: a validation error, another error, a
\* return without any transport call, or a transport call with sent as the
\* value of the field.
ValidationError == [outcome |-> "validationError", sent |-> Undef]
TypeError == [outcome |-> "typeError", sent |-> Undef]
Returned == [outcome |-> "returned", sent |-> Undef]
Called(v) == [outcome |-> "called", sent |-> v]

\* GetAssetInputSchema.parse(args), then get(`/api/assets/${assetId}`).
getAsset(v) ==
    IF v.type = "string" /\ v.text # "" THEN Called(v) ELSE ValidationError

\* getAssetStatistics: params.isArchived = args.isArchived when defined.
getAssetStatistics(v) == Called(v)

\* getRandomAssets: count = args.count || 1.
getRandomAssets(v) == Called(IF ToBoolean(v) THEN v ELSE Num("1"))

\* uploadAssets: for (const filePath of filePaths) over the argument as it
\* came; a value that is not iterable throws a TypeError, an empty one
\* returns {success: true} with nothing uploaded.
uploadAssetsArgs(v) ==
    IF v.type \notin {"array", "string"} THEN TypeError
    ELSE IF v.text \in {"0", ""} THEN Returned
    ELSE Called(v)

\* SearchInputSchema.parse(args): size is z.number().min(1).max(1000)
\* .default(250).
generalSearch(v) ==
    IF v.type = "undefined" THEN Called(Num("250"))
    ELSE IF /\ v.type = "number"
            /\ NumberOf(v.text) >= 1
            /\ NumberOf(v.text) <= 1000
         THEN Called(v)
         ELSE ValidationError

\* metadataSearch: size: args.size || 250.
metadataSearch(v) == Called(IF ToBoolean(v) THEN v ELSE Num("250"))

\* exploreSearch: get('/api/search/explore', args).
exploreSearch(v) == Called(v)

\* filenameSearch: originalFileName: filename.
filenameSearch(v) == Called(v)

\* AssetsTool.handleTool(name, args)
AssetsHandleTool(name, v) ==
    CASE name = "assets_get" -> getAsset(v)
      [] name = "assets_get_statistics" -> getAssetStatistics(v)
      [] name = "assets_get_random" -> getRandomAssets(v)
      [] OTHER -> uploadAssetsArgs(v)

\* SearchTool.handleTool(name, args)
SearchHandleTool(name, v) ==
    CASE name = "search_general" -> generalSearch(v)
      [] name = "search_metadata" -> metadataSearch(v)
      [] name = "search_explore" -> exploreSearch(v)
      [] OTHER -> filenameSearch(v)

\* A tool call is dispatched to its handler, which runs up to its transport
\* call or to its error.
HandleTool(name, v) ==
    /\ tc.pc = "idle"
    /\ LET r == IF name \in AssetsTools THEN AssetsHandleTool(name, v)
                ELSE SearchHandleTool(name, v)
       IN  tc' = [pc |-> IF r.outcome = "called" THEN "calling" ELSE "done",
                  tool |-> name, args |-> v, outcome |-> r.outcome,
                  sent |-> r.sent]
    /\ last' = NoStep
    /\ UNCHANGED <<now, cache, calls, vc, keyIn, keyOut, ub, remote, listings, ca, bu>>

\* The transport call of the handler settles.
ToolSettle ==
    /\ tc.pc = "calling"
    /\ tc' = [tc EXCEPT !.pc = "done"]
    /\ last' = NoStep
    /\ UNCHANGED <<now, cache, calls, vc, keyIn, keyOut, ub, remote, listings, ca, bu>>

\* ------------------------------------------- checkAssetsInAlbum, bulk update
\* The asset ids of the tool arguments and the lists of them.
ArgAssetIds == {"a", "b", "c"}

IdLists == UNION { [1..k -> ArgAssetIds] : k \in 0..MaxIds }

Range(seq) == { seq[k] : k \in 1..Len(seq) }

\* CheckAssetsInAlbumInputSchema.parse(args) accepts: albumId is
\* z.string().min(1), assetIds z.array(z.string()).min(1).
CheckInputAccepted(albumId, assetIds) == albumId # "" /\ Len(assetIds) >= 1

\* BulkUpdateAssetsInputSchema.parse(args) accepts: assetIds is
\* z.array(z.string()).min(1).
BulkInputAccepted(assetIds) == Len(assetIds) >= 1

\* `/api/albums/${input.albumId}`
AlbumEndpoint(albumId) == <<"/api/albums/", albumId>>

\* The albums the remote service answers with, by reference: assets is
\* Undefined when the album carries no assets field, else the ids of its
\* assets.
AlbumRefs == {"album#none", "album#empty", "album#ab", "album#ba", "album#c"}

AlbumAssets(ref) ==
    CASE ref = "album#ab" -> <<"a", "b">>
      [] ref = "album#ba" -> <<"b", "a", "b">>
      [] ref = "album#c" -> <<"c">>
      [] OTHER -> <<>>

\* new Set(album.assets?.map(a => a.id) || [])
albumAssetIds(ref) ==
    IF ref = "album#none" THEN {} ELSE Range(AlbumAssets(ref))

NoResults == [q \in {} |-> FALSE]

\* A membership test that holds of every id.
isMember_Always(ids, assetId) == TRUE

\* const isMember = albumAssetIds.has(assetId)
isMember(ids, assetId) == assetId \in ids

\* for (const assetId of input.assetIds) { ... } from position k on, acc being
\* results, memberCount and nonMemberCount so far.
RECURSIVE CheckLoop(_, _, _, _)
CheckLoop(ids, assetIds, k, acc) ==
    IF k > Len(assetIds) THEN acc
    ELSE LET q == assetIds[k]
             m == isMember(ids, q)
         IN  CheckLoop(ids, assetIds, k + 1,
                 [results |-> [x \in DOMAIN acc.results \cup {q} |->
                                  IF x = q THEN m ELSE acc.results[x]],
                  memberCount |-> acc.memberCount + (IF m THEN 1 ELSE 0),
                  nonMemberCount |->
                      acc.nonMemberCount + (IF m THEN 0 ELSE 1)])

\* checkAssetsInAlbum after its await: the result built from the album.
CheckResult(c, ref) ==
    LET r == CheckLoop(albumAssetIds(ref), c.assetIds, 1,
                       [results |-> NoResults, memberCount |-> 0,
                        nonMemberCount |-> 0])
    IN  [c EXCEPT !.pc = "done", !.outcome = "returned", !.album = ref,
                  !.results = r.results, !.memberCount = r.memberCount,
                  !.nonMemberCount = r.nonMemberCount]

\* checkAssetsInAlbum(args) up to its await: the parse, and the lookup of get.
CheckStart(albumId, assetIds) ==
    /\ ca.pc = "idle"
    /\ LET c == [CaIdle EXCEPT !.albumId = albumId, !.assetIds = assetIds]
           key == CacheKey(AlbumEndpoint(albumId), NoParams)
           cached == GetLookup(cache, key, now, TRUE)
       IN  IF ~CheckInputAccepted(albumId, assetIds)
           THEN /\ ca' = [c EXCEPT !.pc = "done", !.outcome = "threw"]
                /\ cache' = cache
           ELSE /\ cache' = cached.cache
                /\ IF GetReturnsCached(TRUE, cached.value)
                   THEN ca' = CheckResult(c, cached.value)
                   ELSE ca' = [c EXCEPT !.pc = "getting"]
    /\ last' = NoStep
    /\ UNCHANGED <<now, calls, vc, keyIn, keyOut, ub, remote, listings, tc, bu>>

\* The remote service answers with the album.
CheckOk(ref) ==
    /\ ca.pc = "getting"
    /\ cache' = GetStore(cache, CacheKey(AlbumEndpoint(ca.albumId), NoParams),
                         ref, now, TRUE)
    /\ ca' = CheckResult(ca, ref)
    /\ last' = NoStep
    /\ UNCHANGED <<now, calls, vc, keyIn, keyOut, ub, remote, listings, tc, bu>>

\* The request for the album fails: checkAssetsInAlbum rejects.
CheckFail(fault) ==
    /\ ca.pc = "getting"
    /\ ca' = [ca EXCEPT !.pc = "done", !.outcome = "threw"]
    /\ last' = NoStep
    /\ UNCHANGED <<now, cache, calls, vc, keyIn, keyOut, ub, remote, listings,
                   tc, bu>>

\* The caller has the result; the next call can start.
CheckReturn ==
    /\ ca.pc = "done"
    /\ ca' = CaIdle
    /\ last' = NoStep
    /\ UNCHANGED <<now, cache, calls, vc, keyIn, keyOut, ub, remote, listings,
                   tc, bu>>

\* updateData of bulkUpdateAssets: ids, and isFavorite when it is defined.
UpdateData(assetIds, isFavorite) ==
    << <<"ids", assetIds>> >>
    \o (IF isFavorite.type # "undefined"
        THEN << <<"isFavorite", isFavorite>> >> ELSE <<>>)

\* bulkUpdateAssets(args) up to its await: the parse and the one put.
BulkStart(assetIds, isFavorite) ==
    /\ bu.pc = "idle"
    /\ LET b == [BuIdle EXCEPT !.assetIds = assetIds]
       IN  IF ~BulkInputAccepted(assetIds)
           THEN bu' = [b EXCEPT !.pc = "done", !.outcome = "threw"]
           ELSE bu' = [b EXCEPT !.pc = "putting",
                                !.sent = UpdateData(assetIds, isFavorite)]
    /\ last' = NoStep
    /\ UNCHANGED <<now, cache, calls, vc, keyIn, keyOut, ub, remote, listings,
                   tc, ca>>

\* The remote service answers put('/api/assets') with success, having updated
\* the assets of applied.
BulkOk(applied) ==
    /\ bu.pc = "putting"
    /\ applied \subseteq Range(bu.assetIds)
    /\ bu' = [bu EXCEPT !.pc = "done", !.applied = applied,
                        !.outcome = "returned", !.success = TRUE,
                        !.updatedCount = Len(bu.assetIds)]
    /\ last' = NoStep
    /\ UNCHANGED <<now, cache, calls, vc, keyIn, keyOut, ub, remote, listings,
                   tc, ca>>

\* The put fails, the remote service having updated the assets of applied:
\* bulkUpdateAssets rejects.
BulkFail(applied, fault) ==
    /\ bu.pc = "putting"
    /\ applied \subseteq Range(bu.assetIds)
    /\ bu' = [bu EXCEPT !.pc = "done", !.applied = applied,
                        !.outcome = "threw"]
    /\ last' = NoStep
    /\ UNCHANGED <<now, cache, calls, vc, keyIn, keyOut, ub, remote, listings,
                   tc, ca>>

\* ---------------------------------------------------------- specifications
\* The request timeout.
Timeouts ==
    { f \in NoResponseErrors : f.message = "timeout of 30000ms exceeded" }

\* The faults drawn where the kind of fault does not matter.
SomeErrors ==
    { f \in AxiosErrors :
        \/ ~f.response /\ f.message = "timeout of 30000ms exceeded"
        \/ f.response /\ f.status = 404 /\ f.bodyMessage = "not found"
                      /\ f.bodyError = "Not Found" }

\* The reads: get with and without the cache, the cache and the clock.
Next ==
    \/ \E s \in Slots, r \in ReqIds, u \in BOOLEAN : GetStart(s, r, u)
    \/ \E s \in Slots, d \in Payloads : GetResolve(s, d)
    \/ \E s \in Slots, f \in Timeouts : Reject(s, f)
    \/ clearCache
    \/ Tick

Spec == Init /\ [][Next]_vars

\* Every verb method beside cached reads of one request, and the clock.
NextVerbs ==
    \/ \E s \in Slots, u \in BOOLEAN : GetStart(s, 1, u)
    \/ \E s \in Slots, d \in Payloads : GetResolve(s, d)
    \/ \E s \in Slots, op \in MutatingOps : MutateStart(s, op)
    \/ \E s \in Slots : MutateResolve(s, "p")
    \/ \E s \in Slots, e \in BOOLEAN : UploadAsset(s, e)
    \/ \E s \in Slots, f \in SomeErrors : Reject(s, f)
    \/ Tick

SpecVerbs == Init /\ [][NextVerbs]_vars

\* Every verb method under every fault of the HTTP client.
NextFaults ==
    \/ \E s \in Slots, u \in BOOLEAN : GetStart(s, 1, u)
    \/ \E s \in Slots : GetResolve(s, "p")
    \/ \E s \in Slots, op \in MutatingOps : MutateStart(s, op)
    \/ \E s \in Slots : MutateResolve(s, "p")
    \/ \E s \in Slots : UploadAsset(s, TRUE)
    \/ \E s \in Slots, f \in AxiosErrors : Reject(s, f)

SpecFaults == Init /\ [][NextFaults]_vars

\* validateConnection, beside cached reads of one request.
NextValidate ==
    \/ \E s \in Slots : GetStart(s, 1, TRUE)
    \/ \E s \in Slots, d \in Payloads : GetResolve(s, d)
    \/ Tick
    \/ ValidateStart
    \/ \E d \in Payloads : ProbeOk(d)
    \/ \E f \in SomeErrors : ProbeFail(f)

SpecValidate == Init /\ [][NextValidate]_vars

\* The cache keys of two GET requests.
KeyEndpoints == {"/api/albums", "/api/search/explore"}
KeyNames == {"a", "b"}
KeyValues == {Num("1"), Str("1"), Undef}

KeyProps ==
    {<<>>}
    \cup { << <<n, v>> >> : n \in KeyNames, v \in KeyValues }
    \cup { o \in { << <<n, v>>, <<m, w>> >> :
                      n \in KeyNames, m \in KeyNames,
                      v \in KeyValues, w \in KeyValues } : o[1][1] # o[2][1] }

KeyRequests ==
    { [endpoint |-> e, params |-> q] :
        e \in KeyEndpoints, q \in {NoParams} \cup { Params(o) : o \in KeyProps } }

InitKey ==
    /\ now = 0
    /\ cache = NoCache
    /\ calls = [s \in Slots |-> Idle]
    /\ last = NoStep
    /\ vc = VcIdle
    /\ keyIn \in KeyRequests \X KeyRequests
    /\ keyOut = NoKeys
    /\ ub = UbIdle
    /\ remote = NoAlbums
    /\ listings = <<>>
    /\ tc = TcIdle
    /\ ca = CaIdle
    /\ bu = BuIdle

\* const cacheKey = ... in get, for both requests.
ComputeKeys ==
    /\ keyOut = NoKeys
    /\ keyOut' = << CacheKey(keyIn[1].endpoint, keyIn[1].params),
                    CacheKey(keyIn[2].endpoint, keyIn[2].params) >>
    /\ UNCHANGED <<now, cache, calls, last, vc, keyIn, ub, remote, listings, tc, ca, bu>>

NextKey == ComputeKeys

SpecKey == InitKey /\ [][NextKey]_vars

\* The upload batches, one after the other, and the clock.
BatchFilePaths ==
    UNION { [1..k -> FilePaths] : k \in 1..MaxFiles }

InitUpload ==
    /\ now = 0
    /\ cache = NoCache
    /\ calls = [s \in Slots |-> Idle]
    /\ last = NoStep
    /\ vc = VcIdle
    /\ keyIn = KeyDefault
    /\ keyOut = NoKeys
    /\ ub = UbIdle
    /\ remote \in InitialAlbums
    /\ listings = <<>>
    /\ tc = TcIdle
    /\ ca = CaIdle
    /\ bu = BuIdle

NextUpload ==
    \/ \E p \in BatchFilePaths, id \in AlbumIdArgs, name \in AlbumNameArgs :
          BatchStart(p, id, name)
    \/ FileBegin
    \/ \E st \in UploadStatuses : FileOk(st)
    \/ \E f \in Timeouts : FileFail(f)
    \/ AlbumBegin
    \/ ListOk
    \/ CreateOk
    \/ AttachOk
    \/ \E f \in Timeouts : AlbumFail(f)
    \/ BatchReturn
    \/ Tick

SpecUpload == InitUpload /\ [][NextUpload]_vars

\* The tool calls of the assets and search adapters.
NextTools ==
    \/ \E name \in AssetsTools \cup SearchTools, v \in ArgValues :
          HandleTool(name, v)
    \/ ToolSettle

SpecTools == Init /\ [][NextTools]_vars

\* The cached reads of two keys beside a read without the cache and mutating
\* calls, the faults, clearCache and the clock.
NextExits ==
    \/ \E s \in Slots, r \in ReqIds : GetStart(s, r, TRUE)
    \/ \E s \in Slots : GetStart(s, 1, FALSE)
    \/ \E s \in Slots : GetResolve(s, "p")
    \/ \E s \in Slots, op \in {"put", "delete"} : MutateStart(s, op)
    \/ \E s \in Slots : MutateResolve(s, "p")
    \/ \E s \in Slots, f \in Timeouts : Reject(s, f)
    \/ clearCache
    \/ Tick

SpecExits == Init /\ [][NextExits]_vars

\* checkAssetsInAlbum, call after call, and the clock.
NextCheck ==
    \/ \E albumId \in {"", "al1"}, ids \in IdLists : CheckStart(albumId, ids)
    \/ \E ref \in AlbumRefs : CheckOk(ref)
    \/ \E f \in Timeouts : CheckFail(f)
    \/ CheckReturn
    \/ Tick

SpecCheck == Init /\ [][NextCheck]_vars

\* One bulk update.
NextBulk ==
    \/ \E ids \in IdLists, fav \in {Undef, Bool("true"), Bool("false")} :
          BulkStart(ids, fav)
    \/ \E applied \in SUBSET ArgAssetIds : BulkOk(applied)
    \/ \E applied \in SUBSET ArgAssetIds, f \in Timeouts :
          BulkFail(applied, f)

SpecBulk == Init /\ [][NextBulk]_vars

\* ------------------------------------------------------------------ claims
IsGetStart(u) == last.at = "start" /\ last.op = "get" /\ last.useCache = u

IsMutation(step) == step.op \in MutatingOps \cup {"uploadAsset"}

\* C1: a lookup of a key whose entry is younger than the TTL returns the
\* stored payload, and a cache-enabled get that finds such an entry under its
\* key resolves to that payload.
C1_ReadYourWrite ==
    /\ \A k \in DOMAIN cache :
          now - cache[k].timestamp < cacheTtl
              => getFromCache(cache, k, now).value = cache[k].data
    /\ (IsGetStart(TRUE) /\ last.age >= 0 /\ last.age < cacheTtl)
          => (last.status = "resolved" /\ last.value = last.seen)

\* C2: an entry is valid iff its age is strictly below the TTL; the lookup of
\* a key whose entry has age >= TTL returns absent, and a cache-enabled get
\* that finds such an entry sends a request instead of returning the payload.
C2_Expiry ==
    /\ \A k \in DOMAIN cache :
          LET age == now - cache[k].timestamp
          IN  /\ isCacheValid(cache[k].timestamp, now) <=> age < cacheTtl
              /\ age >= cacheTtl => getFromCache(cache, k, now).value = Null
    /\ (IsGetStart(TRUE) /\ last.age >= cacheTtl)
          => (last.status = "pending" /\ last.dispatches = 1)

\* A cache-enabled get found an entry of age exactly TTL, with a truthy
\* payload, and sent a request.
C2_Witness ==
    /\ IsGetStart(TRUE)
    /\ last.age = cacheTtl
    /\ Truthy(last.seen)
    /\ last.status = "pending"

\* C3: no step of a post, put, patch, delete or uploadAsset, succeeding or
\* failing, changes the cache (keys, payloads, timestamps).
C3_MutationsLeaveCache ==
    [][IsMutation(last') => cache' = cache]_vars

\* A mutation failed while the cache held an entry.
C3_Witness ==
    /\ IsMutation(last)
    /\ last.at = "end"
    /\ last.status = "rejected"
    /\ cache # NoCache

\* C4: a get with the flag off sends exactly one request and leaves the cache
\* unchanged at its start (no hit, no eviction) and at its end (no store).
C4_FlagOffBypasses ==
    [][(last'.op = "get" /\ ~last'.useCache)
          => /\ cache' = cache
             /\ last'.dispatches = 1
             /\ last'.at = "start" => last'.status = "pending"]_vars

\* A get with the flag off started while a valid entry with a truthy payload
\* was stored under its key, and sent a request.
C4_Witness ==
    /\ IsGetStart(FALSE)
    /\ last.age >= 0
    /\ last.age < cacheTtl
    /\ Truthy(last.seen)
    /\ last.status = "pending"
    /\ KeyOf(last.req) \in DOMAIN cache

\* C5: a cache-enabled get sends a request only when the entry under its key
\* is absent or expired; with a valid entry it returns the stored payload,
\* whatever the payload, and sends nothing.
C5_ValidEntryServed ==
    IsGetStart(TRUE)
        => /\ last.dispatches = 1 <=> (last.age = -1 \/ last.age >= cacheTtl)
           /\ last.dispatches = 0
                 => (last.status = "resolved" /\ last.value = last.seen)

\* The name/value pairs of a request: a property whose value is undefined is
\* no parameter of the request.
PairSet(q) ==
    { q.props[i] : i \in { j \in DOMAIN q.props : q.props[j][2] # Undef } }

LogicallySame(a, b) ==
    a.endpoint = b.endpoint /\ PairSet(a.params) = PairSet(b.params)

\* C6: two GET requests map to the same cache key iff they have the same
\* endpoint and the same set of name/value pairs, in any insertion order and
\* with absent params equal to the empty object.
C6_CanonicalKey ==
    keyOut # NoKeys
        => (LogicallySame(keyIn[1], keyIn[2]) <=> keyOut[1] = keyOut[2])

IsRejection == last.at = "end" /\ last.status = "rejected"

\* C7: a call rejected on a non-2xx response with status s whose body carries
\* a message m rejects with statusCode s, message m and the body's error.
C7_StructuredBody ==
    (IsRejection /\ last.fault.response /\ last.fault.bodyMessage # Undefined)
        => /\ last.err.statusCode = last.fault.status
           /\ last.err.message = last.fault.bodyMessage
           /\ last.err.error = last.fault.bodyError

\* C7, amended: a call rejected on a non-2xx response with status s whose body
\* carries a non-empty message m rejects with statusCode s, message m and the
\* body's error.
C7_NonEmptyMessage ==
    (IsRejection /\ last.fault.response /\ Truthy(last.fault.bodyMessage))
        => /\ last.err.statusCode = last.fault.status
           /\ last.err.message = last.fault.bodyMessage
           /\ last.err.error = last.fault.bodyError

\* A call was rejected on HTTP 404 with the body message "not found".
C7_Witness ==
    /\ IsRejection
    /\ last.fault.response
    /\ last.fault.status = 404
    /\ last.fault.bodyMessage = "not found"
    /\ last.err.statusCode = 404

C9_NoRetry ==
    /\ \A s \in Slots :
          calls[s].dispatches = IF calls[s].op = "idle" THEN 0 ELSE 1
    /\ last.dispatches <= 1
    /\ IsRejection
          => /\ last.dispatches = 1
             /\ last.normalized = 1
             /\ last.err = ResponseErrorInterceptor(last.fault)
             /\ Cardinality({ s \in Slots : calls[s].op # "idle" }) < MaxInFlight

\* A post was rejected after its single request, and no call is in flight.
C9_Witness ==
    /\ IsRejection
    /\ last.op = "post"
    /\ last.dispatches = 1
    /\ \A s \in Slots : calls[s].op = "idle"

\* The order in which validateConnection requests its paths.
C10_Order ==
    << "/api/users/me", "/api/server/info", "/api/server-info",
       "/api/server/version", "/api/server-info/version", "/api" >>

\* C10: validateConnection requests the five endpoints in their order and then
\* the API root, requests a path only after every earlier one failed, returns
\* true at the first probe that responds, and returns false iff all six failed.
C10_Validate ==
    /\ Len(vc.probed) <= Len(C10_Order)
    /\ \A j \in 1..Len(vc.probed) : vc.probed[j] = C10_Order[j]
    /\ vc.pc = "idle" => vc.probed = <<>> /\ vc.answers = <<>>
    /\ vc.pc = "probing"
          => /\ Len(vc.probed) = Len(vc.answers) + 1
             /\ \A j \in 1..Len(vc.answers) : ~vc.answers[j]
    /\ vc.pc = "done"
          => /\ Len(vc.probed) = Len(vc.answers)
             /\ \A j \in 1..(Len(vc.answers) - 1) : ~vc.answers[j]
             /\ vc.result = vc.answers[Len(vc.answers)]
             /\ ~vc.result => Len(vc.answers) = Len(C10_Order)

\* The five endpoints failed, the API root responded, and the result is true.
C10_Witness ==
    /\ vc.pc = "done"
    /\ vc.result
    /\ vc.answers = <<FALSE, FALSE, FALSE, FALSE, FALSE, TRUE>>

\* ---------------------------------------------------- claims: uploadAssets
\* The calls of a batch to uploadAsset, and its album calls.
UploadCalls(log) == SelectSeq(log, LAMBDA c : c.call = "uploadAsset")

AlbumCalls(log) == SelectSeq(log, LAMBDA c : c.call # "uploadAsset")

CallsOf(log, call) == SelectSeq(log, LAMBDA c : c.call = call)

OkUploads(log) == SelectSeq(UploadCalls(log), LAMBDA c : c.out = "ok")

FailedUploads(log) == SelectSeq(UploadCalls(log), LAMBDA c : c.out = "error")

\* paths is an interleaving of the file paths of u and of f.
RECURSIVE IsMerge(_, _, _)
IsMerge(paths, u, f) ==
    IF paths = <<>> THEN u = <<>> /\ f = <<>>
    ELSE \/ /\ u # <<>>
            /\ Head(u).filePath = Head(paths)
            /\ IsMerge(Tail(paths), Tail(u), f)
         \/ /\ f # <<>>
            /\ Head(f).filePath = Head(paths)
            /\ IsMerge(Tail(paths), u, Tail(f))

\* C11: a batch of N paths attempts every path whatever failed before; every
\* input position ends in exactly one of uploaded and failed, so that
\* uploaded.length + failed.length = N; when exactly one file does not exist
\* and every other upload succeeds, uploaded has N - 1 entries, failed the one
\* entry with the missing path, and success is false.
C11_Partition ==
    ub.pc = "done" =>
        LET N == Len(ub.filePaths)
            attempts == UploadCalls(ub.log)
            missing == { k \in 1..N : ~existsSync(ub.filePaths[k]) }
        IN  /\ Len(attempts) = N
            /\ \A k \in 1..N : attempts[k].arg = ub.filePaths[k]
            /\ Len(ub.uploaded) + Len(ub.failed) = N
            /\ IsMerge(ub.filePaths, ub.uploaded, ub.failed)
            /\ Len(ub.uploaded) = Len(OkUploads(ub.log))
            /\ (/\ Cardinality(missing) = 1
                /\ \A k \in (1..N) \ missing : attempts[k].out = "ok")
               => /\ Len(ub.uploaded) = N - 1
                  /\ Len(ub.failed) = 1
                  /\ \A k \in missing :
                        ub.failed[1].filePath = ub.filePaths[k]
                  /\ ~ub.success

C11_Witness ==
    /\ ub.pc = "done"
    /\ ub.filePaths = <<"a.jpg", "missing.jpg">>
    /\ Len(ub.uploaded) = 1
    /\ Len(ub.failed) = 1
    /\ ub.failed[1].filePath = "missing.jpg"
    /\ ~ub.success

\* C12: success is true exactly when failed is empty; it follows from the
\* outcomes of the files alone, whatever became of the album step.
C12_Success ==
    ub.pc = "done" =>
        /\ ub.success <=> (ub.failed = <<>>)
        /\ ub.success <=>
              \A k \in 1..Len(UploadCalls(ub.log)) :
                  UploadCalls(ub.log)[k].out = "ok"

C12_Witness ==
    /\ ub.pc = "done"
    /\ ub.success
    /\ ub.albumError

\* C13: a batch is sequential and ordered: at most one request is in flight,
\* no call starts before the one before it has settled, the uploads go in the
\* order of the input, the album calls come after the last file, and uploaded
\* and failed list their entries in the order of the input.
C13_Sequential ==
    LET log == ub.log
        ok == OkUploads(log)
        bad == FailedUploads(log)
    IN  /\ ub.inflight <= 1
        /\ \A k \in 1..Len(log) : k < Len(log) => log[k].out # "pending"
        /\ \A k \in 1..Len(UploadCalls(log)) :
              UploadCalls(log)[k].arg = ub.filePaths[k]
        /\ \A j \in 1..Len(log), k \in 1..Len(log) :
              j < k /\ log[k].call = "uploadAsset"
                 => log[j].call = "uploadAsset"
        /\ AlbumCalls(log) # <<>>
              => Len(UploadCalls(log)) = Len(ub.filePaths)
        /\ Len(ub.uploaded) = Len(ok)
        /\ \A k \in 1..Len(ok) :
              /\ ub.uploaded[k].filePath = ok[k].arg
              /\ ub.uploaded[k].assetId = ok[k].ret
        /\ Len(ub.failed) = Len(bad)
        /\ \A k \in 1..Len(bad) : ub.failed[k].filePath = bad[k].arg

C13_Witness ==
    /\ ub.pc = "uploading"
    /\ ub.i = 2
    /\ ub.inflight = 1
    /\ Len(ub.uploaded) = 1

\* C14: the album calls (list, create, attach) are made only when at least
\* one file was uploaded and albumId or albumName was given; a batch that
\* uploaded nothing, or that was given neither, makes no album call.
C14_AlbumGating ==
    LET gate == /\ Len(ub.uploaded) > 0
                /\ Truthy(ub.albumId) \/ Truthy(ub.albumName)
    IN  /\ AlbumCalls(ub.log) # <<>> => gate
        /\ ub.pc = "done" /\ gate => AlbumCalls(ub.log) # <<>>

C14_Witness ==
    /\ ub.pc = "done"
    /\ Truthy(ub.albumName)
    /\ ub.uploaded = <<>>
    /\ ub.failed # <<>>
    /\ AlbumCalls(ub.log) = <<>>

\* The ids of the albums of a list whose name is name but for the case.
MatchingIds(albums, name) ==
    { albums[k].id : k \in Matches(albums, name) }

\* The batch was given only an albumName and uploaded at least one file.
ByNameOnly ==
    /\ NeedsLookup(ub.albumId, ub.albumName)
    /\ Len(ub.uploaded) > 0

\* C15: a batch given only an albumName, for which the remote service holds an
\* album of that name but for the case when the batch runs, makes no create
\* call, attaches the uploads to that album and returns its id as albumId
\* (stated for the batches none of whose album calls failed).
C15_FindExisting ==
    (/\ ub.pc = "done"
     /\ ByNameOnly
     /\ ~ub.albumError
     /\ Matches(ub.before, ub.albumName) # {})
    => /\ CallsOf(ub.log, "post") = <<>>
       /\ Len(CallsOf(ub.log, "put")) = 1
       /\ ub.targetAlbumId \in MatchingIds(ub.before, ub.albumName)
       /\ CallsOf(ub.log, "put")[1].arg = ub.targetAlbumId

\* C16 as stated: a batch given only an albumName that matches no album of the
\* remote service makes exactly one create call with that name, attaches to
\* the id the create call returned and returns that id as albumId.
C16_CreateOnMiss ==
    (/\ ub.pc = "done"
     /\ ByNameOnly
     /\ Matches(ub.before, ub.albumName) = {})
    => LET posts == CallsOf(ub.log, "post")
           puts == CallsOf(ub.log, "put")
       IN  /\ Len(posts) = 1
           /\ posts[1].arg = ub.albumName
           /\ Truthy(posts[1].ret)
           /\ Len(puts) = 1
           /\ puts[1].arg = posts[1].ret
           /\ ub.targetAlbumId = posts[1].ret

\* C16, amended: a batch given only an albumName, whose get('/api/albums')
\* resolved to a listing with no album of that name but for the case, makes
\* exactly one create call, with exactly that name; when the create call
\* succeeds the attach call targets the id it returned and that id is
\* returned as albumId, when it fails there is no attach call and no albumId.
C16_CreateOnListedMiss ==
    (/\ ub.pc = "done"
     /\ ByNameOnly
     /\ Truthy(ub.listed)
     /\ Matches(Listing(ub.listed), ub.albumName) = {})
    => LET posts == CallsOf(ub.log, "post")
           puts == CallsOf(ub.log, "put")
       IN  /\ Len(posts) = 1
           /\ posts[1].arg = ub.albumName
           /\ posts[1].out = "ok"
                 => /\ Truthy(posts[1].ret)
                    /\ Len(puts) = 1
                    /\ puts[1].arg = posts[1].ret
                    /\ ub.targetAlbumId = posts[1].ret
           /\ posts[1].out = "error"
                 => /\ puts = <<>>
                    /\ ub.targetAlbumId = Undefined

C16_Witness ==
    /\ ub.pc = "done"
    /\ ub.albumName = "Summer Trip"
    /\ ub.targetAlbumId = "n1"
    /\ Len(CallsOf(ub.log, "post")) = 1
    /\ CallsOf(ub.log, "post")[1].arg = "Summer Trip"
    /\ CallsOf(ub.log, "put")[1].out = "ok"

\* The album of the batch was resolved: given by the caller, found in the
\* listing or created.
ResolutionSucceeded ==
    \/ Truthy(ub.albumId)
    \/ /\ Truthy(ub.listed)
       /\ Matches(Listing(ub.listed), ub.albumName) # {}
    \/ \E k \in 1..Len(ub.log) :
          ub.log[k].call = "post" /\ ub.log[k].out = "ok"

AlbumPcs == {"album", "listing", "creating", "attaching"}

\* C17: the failure of an album call (list, create, attach) never makes
\* uploadAssets throw and never changes uploaded or failed; the result has an
\* albumId exactly when the album was resolved (given by the caller, found or
\* created), and none when the resolution by name failed.
C17_AlbumFailuresAbsorbed ==
    /\ [](/\ ~ub.threw
          /\ ub.pc = "done" =>
                (Truthy(ub.targetAlbumId) <=> ResolutionSucceeded))
    /\ [][ub.pc \in AlbumPcs
             => /\ ub'.uploaded = ub.uploaded
                /\ ub'.failed = ub.failed
                /\ ub'.pc \in AlbumPcs \cup {"done"}]_vars

C17_Witness ==
    /\ ub.pc = "done"
    /\ ub.albumError
    /\ ub.uploaded # <<>>
    /\ Truthy(ub.albumName)
    /\ ub.targetAlbumId = Undefined
    /\ ~ub.threw

\* C18: when the album step runs and the album is resolved, the batch makes
\* exactly one attach call, to the resolved album, whose ids are the asset ids
\* of the uploaded files in the order of their upload.
C18_SingleAttach ==
    LET puts == CallsOf(ub.log, "put")
        ok == OkUploads(ub.log)
    IN  /\ Len(puts) <= 1
        /\ (/\ ub.pc = "done"
            /\ AlbumStepRuns(ub.albumId, ub.albumName, ub.uploaded)
            /\ Truthy(ub.targetAlbumId))
           => /\ Len(puts) = 1
              /\ puts[1].arg = ub.targetAlbumId
              /\ puts[1].ids = [k \in 1..Len(ok) |-> ok[k].ret]

C18_Witness ==
    /\ ub.pc = "done"
    /\ Len(CallsOf(ub.log, "put")) = 1
    /\ CallsOf(ub.log, "put")[1].ids = <<"x1", "x2">>
    /\ CallsOf(ub.log, "put")[1].out = "ok"

\* ------------------------------------------- claims: concurrency, adapters
\* The entry under a key is younger than the TTL.
ValidEntry(age) == age >= 0 /\ age < cacheTtl

\* C19: two cache-enabled gets of one key that both start while the cache has
\* no valid entry both miss and both send their own request; each resolves to
\* its own response, which it stores, so that once both have completed the
\* entry of the key holds the payload of the response that completed last.
C19_NoSingleFlight ==
    [][\A s \in Slots :
          (calls[s].op = "get" /\ calls[s].useCache) =>
             /\ (/\ last'.at = "start"
                 /\ last'.op = "get"
                 /\ last'.useCache
                 /\ last'.req = calls[s].req
                 /\ ~ValidEntry(last'.age))
                => /\ last'.status = "pending"
                   /\ last'.dispatches = 1
                   /\ calls'[s] = calls[s]
                   /\ \E t \in Slots \ {s} :
                         /\ calls[t] = Idle
                         /\ calls'[t] = calls[s]
             /\ (/\ calls'[s] = Idle
                 /\ last'.status = "resolved")
                => /\ last'.at = "end"
                   /\ \A t \in Slots \ {s} : calls'[t] = calls[t]
                   /\ KeyOf(calls[s].req) \in DOMAIN cache'
                   /\ cache'[KeyOf(calls[s].req)] =
                         [data |-> last'.value, timestamp |-> now]
      ]_vars

C19_Witness ==
    \E s \in Slots :
        /\ calls[s].op = "get"
        /\ calls[s].useCache
        /\ calls[s].dispatches = 1
        /\ last.at = "end"
        /\ last.op = "get"
        /\ last.useCache
        /\ last.status = "resolved"
        /\ last.req = calls[s].req
        /\ last.value = "q"
        /\ KeyOf(last.req) \in DOMAIN cache
        /\ cache[KeyOf(last.req)].data = "q"

\* C20: for every tool of every adapter, arguments that fail the declared
\* input shape of the tool make the dispatch fail with a validation error
\* before any transport call, and are never replaced by a default.
C20_ValidationFirst ==
    (tc.pc # "idle" /\ ~Conforms(tc.tool, tc.args))
       => tc.outcome = "validationError"

\* ------------------------------------------------- claims: later additions
\* The albums of a list that a create call of this process made under name.
CreatedUnder(albums, name) ==
    { k \in 1..Len(albums) :
        /\ \E j \in 1..Len(NewAlbumIds) : albums[k].id = NewAlbumIds[j]
        /\ albums[k].albumName = name }

\* C25: over any sequence of upload batches of one process with the same
\* albumName (at least one upload each, no albumId, every remote call
\* succeeding), at most one create call for the name is ever made, also when
\* the later batches run within the TTL of the album listing of the first;
\* every later batch attaches to the album the first one created.
C25_DuplicateFree ==
    ~ub.faulty =>
        \A name \in AlbumNameArgs \ {Undefined} :
            /\ Cardinality(CreatedUnder(remote, name)) <= 1
            /\ (/\ ub.pc = "done"
                /\ ByNameOnly
                /\ ub.albumName = name
                /\ CreatedUnder(ub.before, name) # {})
               => \E k \in CreatedUnder(ub.before, name) :
                     ub.targetAlbumId = ub.before[k].id

\* A cache-enabled get was rejected in the step.
IsFailedGet(step) ==
    /\ step.at = "end"
    /\ step.status = "rejected"
    /\ step.op = "get"
    /\ step.useCache

\* C23 as stated: when the network call of a cache-enabled get fails, the call
\* rejects with the normalized error, no entry of its key is in the cache
\* afterwards, and the entries of all other keys are unchanged.
C23_NoEntryAfterFailure ==
    /\ [](IsFailedGet(last)
            => /\ last.err = ResponseErrorInterceptor(last.fault)
               /\ KeyOf(last.req) \notin DOMAIN cache)
    /\ [][IsFailedGet(last')
            => \A k \in DOMAIN cache \ {KeyOf(last'.req)} :
                  k \in DOMAIN cache' /\ cache'[k] = cache[k]]_vars

\* C23, amended: when the network call of a cache-enabled get fails, the call
\* rejects with the normalized error and stores nothing: the cache, under its
\* key and under every other key, is what it was before the failure.
C23_FailureStoresNothing ==
    [][IsFailedGet(last')
         => /\ last'.err = ResponseErrorInterceptor(last'.fault)
            /\ last'.normalized = 1
            /\ cache' = cache]_vars

C23_Witness ==
    /\ IsFailedGet(last)
    /\ KeyOf(last.req) \notin DOMAIN cache
    /\ cache # NoCache

\* C24: an entry leaves the cache in two ways only: expired, by the lookup of
\* a cache-enabled get of its own key, or with all the others by clearCache,
\* after which a cache-enabled get sends a request; no other step, no lookup
\* of another key and no passage of time removes an entry, and no lookup
\* removes a valid entry.
C24_OnlyTwoExits ==
    [][/\ \A k \in DOMAIN cache :
             k \notin DOMAIN cache'
                => \/ /\ cache' = NoCache
                      /\ last' = NoStep
                      /\ calls' = calls
                      /\ now' = now
                   \/ /\ last'.at = "start"
                      /\ last'.op = "get"
                      /\ last'.useCache
                      /\ KeyOf(last'.req) = k
                      /\ last'.age >= cacheTtl
                      /\ \A j \in DOMAIN cache \ {k} :
                            j \in DOMAIN cache' /\ cache'[j] = cache[j]
       /\ (/\ cache = NoCache
           /\ last'.at = "start"
           /\ last'.op = "get"
           /\ last'.useCache)
          => /\ last'.status = "pending"
             /\ last'.dispatches = 1
      ]_vars

C24_Witness ==
    /\ last.at = "start"
    /\ last.op = "get"
    /\ last.useCache
    /\ last.age >= cacheTtl
    /\ KeyOf(last.req) \notin DOMAIN cache
    /\ cache # NoCache

\* The positions of a list whose id is in a set, and those whose id is not.
PositionsIn(assetIds, ids) == { k \in 1..Len(assetIds) : assetIds[k] \in ids }

PositionsOut(assetIds, ids) ==
    { k \in 1..Len(assetIds) : assetIds[k] \notin ids }

\* C21: for an album with asset-id set A and a queried id list Q,
\* checkAssetsInAlbum maps every id of Q to true exactly when it is in A,
\* memberCount counts the queried ids in A and nonMemberCount those not in A,
\* and the two add up to the number of queried ids; A = {a, b} and Q = a, c
\* give results {a: true, c: false}, memberCount 1 and nonMemberCount 1.
C21_Membership ==
    ca.outcome = "returned" =>
        LET A == albumAssetIds(ca.album)
            Q == ca.assetIds
        IN  /\ DOMAIN ca.results = Range(Q)
            /\ \A q \in Range(Q) : ca.results[q] <=> q \in A
            /\ ca.memberCount = Cardinality(PositionsIn(Q, A))
            /\ ca.nonMemberCount = Cardinality(PositionsOut(Q, A))
            /\ ca.memberCount + ca.nonMemberCount = Len(Q)
            /\ (A = {"a", "b"} /\ Q = <<"a", "c">>)
               => /\ ca.results = [q \in {"a", "c"} |-> q = "a"]
                  /\ ca.memberCount = 1
                  /\ ca.nonMemberCount = 1

C21_Witness ==
    /\ ca.outcome = "returned"
    /\ ca.album = "album#ab"
    /\ ca.assetIds = <<"a", "c">>
    /\ ca.results["a"]
    /\ ~ca.results["c"]
    /\ ca.memberCount = 1
    /\ ca.nonMemberCount = 1

\* C22: a bulk update in which some items succeed and some fail returns a
\* structured result that tells the succeeded items from the failed ones; it
\* neither throws nor reports every input id as updated.
C22_PartialReported ==
    (/\ bu.pc = "done"
     /\ bu.applied # {}
     /\ bu.applied # Range(bu.assetIds))
    => /\ bu.outcome = "returned"
       /\ bu.updatedCount = Cardinality(PositionsIn(bu.assetIds, bu.applied))

====
